---- MODULE Spec2Model ----
(***************************************************************************)
(* Model of versionedobj/object.py: the object walker, dot-path            *)
(* addressing, the migration engine and the Serializer.                    *)
(*                                                                         *)
(* Names are sequences of characters, so that str.startswith, str.split    *)
(* and str.join are modelled by what they do on the characters.            *)
(* A Python value is a node [k, v, kids]:                                  *)
(*   k = "prim"   a primitive (an int), v its value                        *)
(*   k = "dict"   a dict, kids its items in insertion order                *)
(*   k = "vobj"   a VersionedObject instance, kids its __dict__ in order   *)
(*   k = "custom" a reference to a CustomValue instance, v its identity    *)
(* CustomValue instances live in a heap (identity -> state): two           *)
(* references with the same identity are the same Python object.           *)
(***************************************************************************)
EXTENDS Integers, Sequences, FiniteSets, TLC

VARIABLES cls, objs, heap, fs, ret

vars == <<cls, objs, heap, fs, ret>>

(* ---------------- bounds ---------------- *)
\* leaf values range over 0..MaxVal
MaxVal == 1
\* version markers range over None and 1..MaxVersion
MaxVersion == 4

Values == 0..MaxVal
\* Python's None, as a version marker
None == -1
Versions == 1..MaxVersion

(* ---------------- names ---------------- *)
DOT == "."
N_version == <<"v", "e", "r", "s", "i", "o", "n">>
N_a == <<"a">>
N_b == <<"b">>
N_c == <<"c">>
N_s == <<"s">>
N_t == <<"t">>
N_x == <<"x">>
N_y == <<"y">>
N_z == <<"z">>
\* the walkers' "fieldname is None" of the first stack entry
NoName == <<>>

(* ---------------- values ---------------- *)
Prim(v) == [k |-> "prim", v |-> v, kids |-> <<>>]
Dict(items) == [k |-> "dict", v |-> 0, kids |-> items]
VObj(items) == [k |-> "vobj", v |-> 0, kids |-> items]
Custom(ref) == [k |-> "custom", v |-> ref, kids |-> <<>>]
Item(n, val) == [n |-> n, val |-> val]

\* n in d  (d a dict, or the __dict__ of an instance)
HasKey(d, n) == \E i \in 1..Len(d.kids) : d.kids[i].n = n
KeyIndex(d, n) == CHOOSE i \in 1..Len(d.kids) : d.kids[i].n = n
\* d[n]
GetKey(d, n) == d.kids[KeyIndex(d, n)].val
\* d[n] = val : an existing key keeps its position, a new key goes last
PutKey(d, n, val) ==
    IF HasKey(d, n)
    THEN [d EXCEPT !.kids = [i \in 1..Len(d.kids) |->
              IF d.kids[i].n = n THEN Item(n, val) ELSE d.kids[i]]]
    ELSE [d EXCEPT !.kids = Append(d.kids, Item(n, val))]
\* del d[n]
DelKey(d, n) == [d EXCEPT !.kids = SelectSeq(d.kids, LAMBDA it : it.n # n)]

(* ---------------- strings ---------------- *)
\* s.startswith(p)
StartsWith(s, p) == /\ Len(p) <= Len(s)
                    /\ \A i \in 1..Len(p) : s[i] = p[i]

RECURSIVE JoinDot(_)
\* '.'.join(names)
JoinDot(names) ==
    IF Len(names) = 0 THEN <<>>
    ELSE IF Len(names) = 1 THEN names[1]
    ELSE names[1] \o <<DOT>> \o JoinDot(Tail(names))

RECURSIVE SplitDot(_, _, _)
\* s.split('.') : cur is the segment being read, acc the segments read
SplitDot(s, cur, acc) ==
    IF Len(s) = 0 THEN Append(acc, cur)
    ELSE IF Head(s) = DOT THEN SplitDot(Tail(s), <<>>, Append(acc, cur))
    ELSE SplitDot(Tail(s), Append(cur, Head(s)), acc)

(* ---------------- _ObjField ---------------- *)
ObjField(parents, fieldname, value) ==
    [parents |-> parents, fieldname |-> fieldname, value |-> value]

dot_name(field) == JoinDot(Append(field.parents, field.fieldname))

\* getattr(obj, n): [ok, val]; ok = FALSE is AttributeError
GetAttr(obj, n) ==
    IF obj.k = "vobj" /\ HasKey(obj, n)
    THEN [ok |-> TRUE, val |-> GetKey(obj, n)]
    ELSE [ok |-> FALSE, val |-> Prim(0)]

RECURSIVE get_obj_field(_, _, _)
\* _ObjField.get_obj_field: follows parents, then reads fieldname
get_obj_field(obj, parents, fieldname) ==
    IF Len(parents) = 0 THEN GetAttr(obj, fieldname)
    ELSE LET r == GetAttr(obj, Head(parents))
         IN IF r.ok THEN get_obj_field(r.val, Tail(parents), fieldname)
            ELSE r

RECURSIVE set_obj_field(_, _, _, _)
\* _ObjField.set_obj_field: [ok, obj]; ok = FALSE is AttributeError
set_obj_field(obj, parents, fieldname, value) ==
    IF Len(parents) = 0
    THEN IF obj.k = "vobj"
         THEN [ok |-> TRUE, obj |-> PutKey(obj, fieldname, value)]
         ELSE [ok |-> FALSE, obj |-> obj]
    ELSE LET r == GetAttr(obj, Head(parents))
         IN IF ~r.ok THEN [ok |-> FALSE, obj |-> obj]
            ELSE LET s == set_obj_field(r.val, Tail(parents), fieldname, value)
                 IN [ok |-> s.ok,
                     obj |-> IF s.ok THEN PutKey(obj, Head(parents), s.obj)
                             ELSE obj]

RECURSIVE set_dict_field(_, _, _, _)
\* _ObjField.set_dict_field: [ok, attrs]; ok = FALSE is TypeError, when a
\* parent name holds something that is not a dict
set_dict_field(attrs, parents, fieldname, value) ==
    IF attrs.k # "dict" THEN [ok |-> FALSE, attrs |-> attrs]
    ELSE IF Len(parents) = 0
    THEN [ok |-> TRUE, attrs |-> PutKey(attrs, fieldname, value)]
    ELSE LET pname == Head(parents)
             sub == IF HasKey(attrs, pname) THEN GetKey(attrs, pname)
                    ELSE Dict(<<>>)
             s == set_dict_field(sub, Tail(parents), fieldname, value)
         IN [ok |-> s.ok,
             attrs |-> IF s.ok THEN PutKey(attrs, pname, s.attrs) ELSE attrs]

\* _ObjField.from_dot_name: [ok, field]
from_dot_name(dotname, parent_obj) ==
    LET fields == SplitDot(dotname, <<>>, <<>>)
        parents == IF Len(fields) = 1 THEN <<>>
                   ELSE SubSeq(fields, 1, Len(fields) - 1)
        fieldname == fields[Len(fields)]
        r == get_obj_field(parent_obj, parents, fieldname)
    IN [ok |-> r.ok, field |-> ObjField(parents, fieldname, r.val)]

(* ---------------- walkers ---------------- *)
\* _iter_obj_attrs: the names of obj.__dict__, private ones left out
_iter_obj_attrs(obj) ==
    SelectSeq(obj.kids, LAMBDA it :
        /\ ~StartsWith(it.n, <<"_", "_">>)
        /\ ~StartsWith(it.n, <<"_", "v", "o", "b", "j", "_", "_">>))

\* _field_should_be_skipped: 'only' decides alone when it is non-empty
_field_should_be_skipped(dotname, only, ignore) ==
    IF Len(only) > 0
    THEN ~(\E i \in 1..Len(only) : StartsWith(dotname, only[i]))
    ELSE \E i \in 1..Len(ignore) : StartsWith(dotname, ignore[i])

StackEntry(fieldname, node) == [fieldname |-> fieldname, node |-> node]

RECURSIVE WalkObjLoop(_, _, _, _, _)
\* the while loop of _walk_obj_attrs: obj_stack is a queue, parents is one
\* list that only ever grows, acc the fields yielded so far
WalkObjLoop(obj_stack, parents, only, ignore, acc) ==
    IF Len(obj_stack) = 0 THEN acc
    ELSE LET top == Head(obj_stack)
             parents2 == IF top.fieldname # NoName
                         THEN Append(parents, top.fieldname)
                         ELSE parents
             names == _iter_obj_attrs(top.node)
             nested == SelectSeq(names, LAMBDA it : it.val.k = "vobj")
             leaves == SelectSeq(names, LAMBDA it :
                 /\ it.val.k # "vobj"
                 /\ ~_field_should_be_skipped(
                        JoinDot(Append(parents2, it.n)), only, ignore))
         IN WalkObjLoop(
                Tail(obj_stack) \o
                    [i \in 1..Len(nested) |->
                        StackEntry(nested[i].n, nested[i].val)],
                parents2, only, ignore,
                acc \o [i \in 1..Len(leaves) |->
                           ObjField(parents2, leaves[i].n, leaves[i].val)])

\* _walk_obj_attrs: the fields in the order they are yielded
_walk_obj_attrs(parent_obj, only, ignore) ==
    WalkObjLoop(<<StackEntry(NoName, parent_obj)>>, <<>>, only, ignore, <<>>)

\* The generator _walk_dict_attrs, as its state between two yields:
\*   stack, parents : attrs_stack and parents
\*   cur, idx       : the dict of the running for loop and the next item
\*   incur          : FALSE when the next step pops attrs_stack
WalkDictStart(parent_attrs) ==
    [stack |-> <<StackEntry(NoName, parent_attrs)>>, parents |-> <<>>,
     cur |-> Dict(<<>>), idx |-> 1, incur |-> FALSE]

RECURSIVE WalkDictNext(_, _, _, _)
\* next(generator): runs _walk_dict_attrs on the object as it is now, to the
\* next yield ("yield", with field), to the end ("stop"), or to the
\* AttributeError of get_obj_field ("error")
WalkDictNext(g, obj, only, ignore) ==
    IF ~g.incur
    THEN IF Len(g.stack) = 0
         THEN [status |-> "stop", field |-> ObjField(<<>>, NoName, Prim(0)),
               g |-> g]
         ELSE LET top == Head(g.stack)
              IN WalkDictNext(
                     [stack |-> Tail(g.stack),
                      parents |-> IF top.fieldname # NoName
                                  THEN Append(g.parents, top.fieldname)
                                  ELSE g.parents,
                      cur |-> top.node, idx |-> 1, incur |-> TRUE],
                     obj, only, ignore)
    ELSE IF g.idx > Len(g.cur.kids)
    THEN WalkDictNext([g EXCEPT !.incur = FALSE], obj, only, ignore)
    ELSE LET n == g.cur.kids[g.idx].n
             value == g.cur.kids[g.idx].val
             field == ObjField(g.parents, n, value)
             field_value == get_obj_field(obj, g.parents, n)
             g2 == [g EXCEPT !.idx = g.idx + 1]
         IN IF ~field_value.ok
            THEN [status |-> "error", field |-> field, g |-> g]
            ELSE IF field_value.val.k = "vobj" /\ value.k = "dict"
            THEN WalkDictNext(
                     [g2 EXCEPT !.stack = Append(g.stack, StackEntry(n, value))],
                     obj, only, ignore)
            ELSE IF ~_field_should_be_skipped(dot_name(field), only, ignore)
            THEN [status |-> "yield", field |-> field, g |-> g2]
            ELSE WalkDictNext(g2, obj, only, ignore)

(* ---------------- CustomValue ---------------- *)
\* The CustomValue subclass of the model: its state is an int n, to_dict
\* returns n + 10 and from_dict(a) sets n = a - 10.
CvToDict(n) == Prim(n + 10)
\* [ok, n]; ok = FALSE is the TypeError of "a - 10" on a dict
CvFromDict(a) == IF a.k = "prim" THEN [ok |-> TRUE, n |-> a.v - 10]
                 ELSE [ok |-> FALSE, n |-> 0]

(* ---------------- MigrationResult ---------------- *)
MigrationResult(old_version, target_version, version_reached, success) ==
    [present |-> TRUE, old_version |-> old_version,
     target_version |-> target_version,
     version_reached |-> version_reached, success |-> success]
\* the None that stands for "no migration was needed"
NoResult ==
    [present |-> FALSE, old_version |-> None, target_version |-> None,
     version_reached |-> None, success |-> FALSE]

(* ---------------- migrations ---------------- *)
\* A registered migration (from_version, to_version, migration_func).
\* The migration functions of the model rewrite the field 'a' in place,
\*     attrs['a'] = 2 * attrs.get('a', 0) + to_version; return attrs
\* so that the order and the number of the transforms applied shows in the
\* map.
Migration(from, to) == [from |-> from, to |-> to]

ApplyTransform(m, attrs) ==
    LET old == IF HasKey(attrs, N_a) /\ GetKey(attrs, N_a).k = "prim"
               THEN GetKey(attrs, N_a).v ELSE 0
    IN PutKey(attrs, N_a, Prim(2 * old + m.to))

\* obj.__dict__.get('version', None)
VersionAttr(obj) ==
    IF HasKey(obj, N_version) THEN GetKey(obj, N_version).v ELSE None

\* attrs.get('version', None)
VersionOf(attrs) ==
    IF HasKey(attrs, N_version) THEN GetKey(attrs, N_version).v ELSE None

RECURSIVE MigrateLoopRescan(_, _, _, _, _, _)
\* the for loop starting over at the top of the list after every migration
\* function called, given up once more calls were made than migrations are
\* registered
MigrateLoopRescan(migrations, i, version, version_after_migration, attrs, applied) ==
    IF i > Len(migrations) \/ Len(applied) > Len(migrations)
    THEN [version_after_migration |-> version_after_migration,
          attrs |-> attrs, applied |-> applied, steps |-> i - 1]
    ELSE LET m == migrations[i]
             hit == m.from = version_after_migration
             attrs2 == IF hit THEN ApplyTransform(m, attrs) ELSE attrs
             applied2 == IF hit THEN Append(applied, i) ELSE applied
         IN IF m.to = version
            THEN [version_after_migration |-> m.to,
                  attrs |-> attrs2, applied |-> applied2, steps |-> i]
            ELSE MigrateLoopRescan(migrations, IF hit THEN 1 ELSE i + 1,
                                   version, m.to, attrs2, applied2)

RECURSIVE MigrateLoop(_, _, _, _, _, _)
\* the for loop of _vobj__migrate over cls._vobj__migrations from index i;
\* applied lists the indexes of the migration functions called, steps is
\* the number of iterations made (the index of the last tuple taken)
MigrateLoop(migrations, i, version, version_after_migration, attrs, applied) ==
    IF i > Len(migrations)
    THEN [version_after_migration |-> version_after_migration,
          attrs |-> attrs, applied |-> applied, steps |-> i - 1]
    ELSE LET m == migrations[i]
             hit == m.from = version_after_migration
             attrs2 == IF hit THEN ApplyTransform(m, attrs) ELSE attrs
             applied2 == IF hit THEN Append(applied, i) ELSE applied
         IN IF m.to = version
            THEN [version_after_migration |-> m.to,
                  attrs |-> attrs2, applied |-> applied2, steps |-> i]
            ELSE MigrateLoop(migrations, i + 1, version, m.to, attrs2, applied2)

\* _vobj__migrate without "result.success = False"
_vobj__migrate_success(migrations, version, attrs) ==
    LET old_version == VersionOf(attrs)
    IN IF old_version # version
       THEN LET l == MigrateLoop(migrations, 1, version, old_version,
                                 attrs, <<>>)
            IN [result |-> MigrationResult(old_version, version,
                               l.version_after_migration, TRUE),
                attrs |-> l.attrs, applied |-> l.applied, steps |-> l.steps]
       ELSE [result |-> NoResult, attrs |-> attrs, applied |-> <<>>,
             steps |-> 0]

\* VersionedObject._vobj__migrate: [result, attrs, applied, steps]
_vobj__migrate(migrations, version, attrs) ==
    LET old_version == VersionOf(attrs)
    IN IF old_version # version
       THEN LET l == MigrateLoop(migrations, 1, version, old_version,
                                 attrs, <<>>)
            IN [result |-> MigrationResult(old_version, version,
                               l.version_after_migration,
                               l.version_after_migration = version),
                attrs |-> l.attrs, applied |-> l.applied, steps |-> l.steps]
       ELSE [result |-> NoResult, attrs |-> attrs, applied |-> <<>>,
             steps |-> 0]

(* ---------------- Serializer ---------------- *)
RECURSIVE ToDictLoop(_, _, _, _)
\* the for loop of to_dict over the fields from index i
ToDictLoop(fields, i, h, out) ==
    IF i > Len(fields) THEN [err |-> "none", out |-> out]
    ELSE LET f == fields[i]
             value == IF f.value.k = "custom" THEN CvToDict(h[f.value.v])
                      ELSE f.value
             r == set_dict_field(out, f.parents, f.fieldname, value)
         IN IF r.ok THEN ToDictLoop(fields, i + 1, h, r.attrs)
            ELSE [err |-> "TypeError", out |-> out]

\* Serializer.to_dict: [err, out]
to_dict(obj, h, only, ignore) ==
    IF Len(only) > 0 /\ Len(ignore) > 0
    THEN [err |-> "InvalidFilterError", out |-> Dict(<<>>)]
    ELSE ToDictLoop(_walk_obj_attrs(obj, only, ignore), 1, h, Dict(<<>>))

RECURSIVE ValidateLoop(_, _, _, _, _, _)
\* the for loop of validate_dict over _walk_dict_attrs, and the check for
\* missing names after it; expected is the key set of obj_attrs_loaded,
\* seen the keys set to True
ValidateLoop(g, obj, only, ignore, expected, seen) ==
    LET r == WalkDictNext(g, obj, only, ignore)
    IN IF r.status = "error"
       THEN [err |-> "InputValidationError", why |-> "attribute"]
       ELSE IF r.status = "stop"
       THEN IF expected \ seen # {}
            THEN [err |-> "InputValidationError", why |-> "missing"]
            ELSE [err |-> "none", why |-> "none"]
       ELSE LET dotname == dot_name(r.field)
            IN IF dotname = N_version
               THEN ValidateLoop(r.g, obj, only, ignore, expected, seen)
               ELSE IF dotname \notin expected
               THEN [err |-> "InputValidationError", why |-> "unrecognized"]
               ELSE ValidateLoop(r.g, obj, only, ignore, expected,
                                 seen \cup {dotname})

\* Serializer.validate_dict: [err, why]
validate_dict(obj, attrs, only, ignore) ==
    IF Len(only) > 0 /\ Len(ignore) > 0
    THEN [err |-> "InvalidFilterError", why |-> "none"]
    ELSE LET fields == _walk_obj_attrs(obj, only, ignore)
             expected == {dot_name(fields[i]) : i \in 1..Len(fields)}
                             \ {N_version}
         IN ValidateLoop(WalkDictStart(attrs), obj, only, ignore,
                         expected, {})

RECURSIVE LoadLoop(_, _, _, _, _, _)
\* the for loop of from_dict over _walk_dict_attrs: every yielded field is
\* assigned (or handed to the CustomValue hook) before the walk goes on;
\* assigned counts the fields handled
LoadLoop(g, obj, h, only, ignore, assigned) ==
    LET r == WalkDictNext(g, obj, only, ignore)
    IN IF r.status = "error"
       THEN [err |-> "AttributeError", obj |-> obj, heap |-> h,
             assigned |-> assigned]
       ELSE IF r.status = "stop"
       THEN [err |-> "none", obj |-> obj, heap |-> h, assigned |-> assigned]
       ELSE LET f == r.field
                val == get_obj_field(obj, f.parents, f.fieldname).val
            IN IF val.k = "custom"
               THEN LET c == CvFromDict(f.value)
                    IN IF c.ok
                       THEN LoadLoop(r.g, obj, [h EXCEPT ![val.v] = c.n],
                                     only, ignore, assigned + 1)
                       ELSE [err |-> "TypeError", obj |-> obj, heap |-> h,
                             assigned |-> assigned]
               ELSE LoadLoop(r.g,
                        set_obj_field(obj, f.parents, f.fieldname, f.value).obj,
                        h, only, ignore, assigned + 1)

\* What a call of from_dict did:
\*   err, why   the exception raised ("none": it returned)
\*   returned   the value returned
\*   mres       the value _vobj__migrate returned
\*   obj, heap  the object and the CustomValue instances afterwards
\*   attrs      the input dict afterwards
\*   applied    the migration functions called, migrated: the engine ran
\*   steps      the iterations the engine's loop made
\*   validated  validate_dict was called, assigned: fields assigned
Outcome(err, why, returned, mres, obj, h, attrs, applied, steps, migrated, validated, assigned) ==
    [err |-> err, why |-> why, returned |-> returned, mres |-> mres,
     obj |-> obj, heap |-> h, attrs |-> attrs, applied |-> applied,
     steps |-> steps,
     migrated |-> migrated, validated |-> validated, assigned |-> assigned]

\* from_dict from "if validate:" on, mig what _vobj__migrate returned
FromDictLoad(mig, obj, h, validate, only, ignore) ==
    LET v == IF validate THEN validate_dict(obj, mig.attrs, only, ignore)
             ELSE [err |-> "none", why |-> "none"]
    IN IF v.err # "none"
       THEN Outcome(v.err, v.why, NoResult, mig.result, obj, h,
                    mig.attrs, mig.applied, mig.steps, TRUE, TRUE, 0)
       ELSE
       LET attrs2 == IF HasKey(mig.attrs, N_version)
                     THEN DelKey(mig.attrs, N_version) ELSE mig.attrs
           l == LoadLoop(WalkDictStart(attrs2), obj, h, only, ignore, 0)
       IN Outcome(l.err, "none",
                  IF l.err = "none" THEN mig.result ELSE NoResult,
                  mig.result, l.obj, l.heap, attrs2, mig.applied, mig.steps,
                  TRUE, validate, l.assigned)

\* from_dict without the return of a failed migration result
from_dict_no_return(migrations, obj, h, attrs, validate, only, ignore) ==
    IF Len(only) > 0 /\ Len(ignore) > 0
    THEN Outcome("InvalidFilterError", "none", NoResult, NoResult, obj, h,
                 attrs, <<>>, 0, FALSE, FALSE, 0)
    ELSE FromDictLoad(_vobj__migrate(migrations, VersionAttr(obj), attrs),
                      obj, h, validate, only, ignore)

\* Serializer.from_dict
from_dict(migrations, obj, h, attrs, validate, only, ignore) ==
    IF Len(only) > 0 /\ Len(ignore) > 0
    THEN Outcome("InvalidFilterError", "none", NoResult, NoResult, obj, h,
                 attrs, <<>>, 0, FALSE, FALSE, 0)
    ELSE
    LET version == VersionAttr(obj)
        mig == _vobj__migrate(migrations, version, attrs)
        migration_result == mig.result
    IN IF migration_result.present /\ ~migration_result.success
       THEN Outcome("none", "none", migration_result, migration_result,
                    obj, h, mig.attrs, mig.applied, mig.steps, TRUE,
                    FALSE, 0)
       ELSE FromDictLoad(mig, obj, h, validate, only, ignore)

(* ---------------- JSON text and the file ---------------- *)
\* JSON text is a sequence of tokens (white space, and with it the indent
\* argument of to_json, is left out).
Tok(t, v, s) == [t |-> t, v |-> v, s |-> s]
LBRACE == Tok("{", 0, <<>>)
RBRACE == Tok("}", 0, <<>>)
COLON == Tok(":", 0, <<>>)
COMMA == Tok(",", 0, <<>>)

RECURSIVE JsonDumps(_)
\* json.dumps of a dict of ints and dicts
JsonDumps(node) ==
    IF node.k # "dict" THEN <<Tok("num", node.v, <<>>)>>
    ELSE LET Member(i) ==
                 (IF i > 1 THEN <<COMMA>> ELSE <<>>)
                 \o <<Tok("str", 0, node.kids[i].n), COLON>>
                 \o JsonDumps(node.kids[i].val)
             Members[i \in 0..Len(node.kids)] ==
                 IF i = 0 THEN <<>> ELSE Members[i - 1] \o Member(i)
         IN <<LBRACE>> \o Members[Len(node.kids)] \o <<RBRACE>>

JsonFail == [ok |-> FALSE, node |-> Prim(0), pos |-> 0]

RECURSIVE JsonValue(_, _)
RECURSIVE JsonMembers(_, _, _)
\* the value that starts at text[pos]: [ok, node, pos after it]
JsonValue(text, pos) ==
    IF pos > Len(text) THEN JsonFail
    ELSE IF text[pos].t = "num"
    THEN [ok |-> TRUE, node |-> Prim(text[pos].v), pos |-> pos + 1]
    ELSE IF text[pos] # LBRACE THEN JsonFail
    ELSE IF pos + 1 <= Len(text) /\ text[pos + 1] = RBRACE
    THEN [ok |-> TRUE, node |-> Dict(<<>>), pos |-> pos + 2]
    ELSE JsonMembers(text, pos + 1, Dict(<<>>))

\* the members of an object from text[pos] on, d the members read so far
JsonMembers(text, pos, d) ==
    IF pos + 1 > Len(text) \/ text[pos].t # "str" \/ text[pos + 1] # COLON
    THEN JsonFail
    ELSE LET r == JsonValue(text, pos + 2)
         IN IF ~r.ok \/ r.pos > Len(text) THEN JsonFail
            ELSE LET d2 == PutKey(d, text[pos].s, r.node)
                 IN IF text[r.pos] = RBRACE
                    THEN [ok |-> TRUE, node |-> d2, pos |-> r.pos + 1]
                    ELSE IF text[r.pos] = COMMA
                    THEN JsonMembers(text, r.pos + 1, d2)
                    ELSE JsonFail

\* json.loads: [ok, node]; ok = FALSE is JSONDecodeError
JsonLoads(text) ==
    LET r == JsonValue(text, 1)
    IN IF r.ok /\ r.pos = Len(text) + 1 THEN [ok |-> TRUE, node |-> r.node]
       ELSE [ok |-> FALSE, node |-> Prim(0)]

\* Serializer.to_json: [err, text]
to_json(obj, h, only, ignore) ==
    LET d == to_dict(obj, h, only, ignore)
    IN [err |-> d.err,
        text |-> IF d.err = "none" THEN JsonDumps(d.out) ELSE <<>>]

\* Serializer.from_json: the outcome of from_dict, and decoded: json.loads
\* was called
from_json(migrations, obj, h, jsonstr, validate, only, ignore) ==
    LET d == JsonLoads(jsonstr)
    IN IF ~d.ok
       THEN [o |-> Outcome("LoadObjectError", "none", NoResult, NoResult,
                           obj, h, Dict(<<>>), <<>>, 0, FALSE, FALSE, 0),
             decoded |-> TRUE]
       ELSE IF d.node.k # "dict"
       THEN [o |-> Outcome(IF Len(only) > 0 /\ Len(ignore) > 0
                           THEN "InvalidFilterError" ELSE "AttributeError",
                           "none", NoResult, NoResult,
                           obj, h, d.node, <<>>, 0, FALSE, FALSE, 0),
             decoded |-> TRUE]
       ELSE [o |-> from_dict(migrations, obj, h, d.node, validate, only,
                             ignore),
             decoded |-> TRUE]

\* The one file of the model: exists, and its text
File(exists, text) == [exists |-> exists, text |-> text]

\* Serializer.to_file: [err, file]; open(filename, 'w') creates or
\* truncates the file before to_json runs
to_file(obj, h, file, only, ignore) ==
    LET opened == File(TRUE, <<>>)
        j == to_json(obj, h, only, ignore)
    IN [err |-> j.err,
        file |-> IF j.err = "none" THEN File(TRUE, j.text) ELSE opened,
        opened |-> TRUE]

\* Serializer.from_file: the outcome of from_json, and opened: the file
\* was opened
from_file(migrations, obj, h, file, validate, only, ignore) ==
    IF ~file.exists
    THEN [o |-> Outcome("FileNotFoundError", "none", NoResult, NoResult,
                        obj, h, Dict(<<>>), <<>>, 0, FALSE, FALSE, 0),
          decoded |-> FALSE, opened |-> FALSE]
    ELSE LET j == from_json(migrations, obj, h, file.text, validate, only,
                            ignore)
         IN [o |-> j.o, decoded |-> j.decoded, opened |-> TRUE]

(* ---------------- VersionedObject ---------------- *)
RECURSIVE InitLoop(_, _, _)
RECURSIVE InitialValuesLoop(_, _, _, _)
RECURSIVE __init__(_, _)

\* the first for loop of __init__ over the class attributes from index i:
\* a nested VersionedObject is built afresh, any other class attribute
\* (a CustomValue instance too) is set on the instance as it is
InitLoop(names, i, self) ==
    IF i > Len(names) THEN [ok |-> TRUE, obj |-> self]
    ELSE LET val == names[i].val
         IN IF val.k = "vobj"
            THEN IF HasKey(val, N_version)
                 THEN [ok |-> FALSE, obj |-> self]
                 ELSE LET sub == __init__(val, Dict(<<>>))
                      IN IF ~sub.ok THEN sub
                         ELSE InitLoop(names, i + 1,
                                       PutKey(self, names[i].n, sub.obj))
            ELSE InitLoop(names, i + 1, PutKey(self, names[i].n, val))

\* the second for loop of __init__: the initial values, by dot name
InitialValuesLoop(fields, i, initial_values, self) ==
    IF i > Len(fields) THEN self
    ELSE LET dotname == dot_name(fields[i])
         IN IF HasKey(initial_values, dotname)
            THEN InitialValuesLoop(fields, i + 1, initial_values,
                     set_obj_field(self, fields[i].parents,
                                   fields[i].fieldname,
                                   GetKey(initial_values, dotname)).obj)
            ELSE InitialValuesLoop(fields, i + 1, initial_values, self)

\* VersionedObject.__init__ for the class whose attributes are class_attrs:
\* [ok, obj]; ok = FALSE is InvalidVersionAttributeError
__init__(class_attrs, initial_values) ==
    LET r == InitLoop(_iter_obj_attrs(class_attrs), 1, VObj(<<>>))
    IN IF ~r.ok THEN r
       ELSE IF Len(initial_values.kids) > 0
       THEN [ok |-> TRUE,
             obj |-> InitialValuesLoop(_walk_obj_attrs(r.obj, <<>>, <<>>), 1,
                                       initial_values, r.obj)]
       ELSE r

\* VersionedObject.__getitem__: [ok, val]; ok = FALSE is AttributeError
__getitem__(self, key) ==
    LET f == from_dot_name(key, self)
    IN IF ~f.ok THEN [ok |-> FALSE, val |-> Prim(0)]
       ELSE get_obj_field(self, f.field.parents, f.field.fieldname)

\* VersionedObject.__setitem__: [ok, obj]; ok = FALSE is AttributeError
__setitem__(self, key, value) ==
    LET f == from_dot_name(key, self)
    IN IF ~f.ok THEN [ok |-> FALSE, obj |-> self]
       ELSE set_obj_field(self, f.field.parents, f.field.fieldname, value)

(* ---------------- the classes of the model ---------------- *)
\* A class: its attributes in definition order (a nested VersionedObject
\* class as a "vobj" node, a CustomValue instance as a reference) and its
\* registered migrations, in registration order.
Class(attrs, migrations) == [attrs |-> attrs, migrations |-> migrations]

\* the identity of the CustomValue instance that is a class attribute
CvRef == 1

\* (None -> 1), (1 -> 2), ..., (n-1 -> n)
ChainMigrations(n) ==
    [i \in 1..n |-> Migration(IF i = 1 THEN None ELSE i - 1, i)]

MigrationLists ==
    {ChainMigrations(n) : n \in 0..MaxVersion}
    \cup {<<Migration(1, 2), Migration(3, 4)>>,
          <<Migration(1, 2), Migration(2, 1)>>,
          <<Migration(1, 2), Migration(1, 3)>>,
          <<Migration(2, 3), Migration(1, 2)>>}

FlatAttrs(version) ==
    VObj(<<Item(N_version, Prim(version)), Item(N_a, Prim(0)),
           Item(N_b, Prim(0))>>)
UnversionedAttrs ==
    VObj(<<Item(N_a, Prim(0)), Item(N_b, Prim(0))>>)
ChainAttrs ==
    VObj(<<Item(N_version, Prim(3)), Item(N_a, Prim(0)),
           Item(N_s, VObj(<<Item(N_x, Prim(0)),
                            Item(N_t, VObj(<<Item(N_y, Prim(0))>>))>>))>>)
SiblingAttrs ==
    VObj(<<Item(N_version, Prim(3)), Item(N_a, Prim(0)),
           Item(N_s, VObj(<<Item(N_x, Prim(0))>>)),
           Item(N_t, VObj(<<Item(N_y, Prim(0))>>))>>)
CustomAttrs ==
    VObj(<<Item(N_version, Prim(3)), Item(N_a, Prim(0)),
           Item(N_c, Custom(CvRef))>>)

(* ---------------- inputs ---------------- *)
RECURSIVE LeafSeq(_, _)
\* the leaves of an object tree, [name, value] with name the dot name, by
\* descent into every nested object as it is met
LeafSeq(node, prefix) ==
    LET Kid(i) ==
            IF node.kids[i].val.k = "vobj"
            THEN LeafSeq(node.kids[i].val, Append(prefix, node.kids[i].n))
            ELSE <<[name |-> JoinDot(Append(prefix, node.kids[i].n)),
                    value |-> node.kids[i].val]>>
        Upto[i \in 0..Len(node.kids)] ==
            IF i = 0 THEN <<>> ELSE Upto[i - 1] \o Kid(i)
    IN Upto[Len(node.kids)]

\* the dot names of the leaves of an object tree
LeafPaths(obj) ==
    {LeafSeq(obj, <<>>)[i].name : i \in 1..Len(LeafSeq(obj, <<>>))}

RECURSIVE FullMap(_, _)
\* a dict with a key for every attribute of the object tree, nested dicts
\* for nested objects, every leaf v (encoded, for a CustomValue)
FullMap(node, v) ==
    Dict([i \in 1..Len(node.kids) |->
        Item(node.kids[i].n,
             IF node.kids[i].val.k = "vobj" THEN FullMap(node.kids[i].val, v)
             ELSE IF node.kids[i].val.k = "custom" THEN CvToDict(v)
             ELSE Prim(v))])

\* d with its version key set to ver, or removed when ver is None
WithVersion(d, ver) ==
    IF ver = None THEN DelKey(d, N_version)
    ELSE Dict(<<Item(N_version, Prim(ver))>> \o DelKey(d, N_version).kids)

\* d with one key removed, with an unknown key added, or with a nested dict
\* replaced by a number or changed in one of these ways
Perturbed(d) ==
    {DelKey(d, d.kids[i].n) : i \in 1..Len(d.kids)}
    \cup {PutKey(d, N_z, Prim(0))}
    \cup {Dict(<<Item(N_z, Prim(0))>> \o d.kids)}
    \cup UNION {LET sub == d.kids[i].val
                IN IF sub.k # "dict" THEN {}
                   ELSE {PutKey(d, d.kids[i].n, x) :
                            x \in {Prim(0), PutKey(sub, N_z, Prim(0)),
                                   DelKey(sub, sub.kids[1].n)}}
                : i \in 1..Len(d.kids)}

\* the dicts handed to validate_dict and from_dict
AttrsInputs ==
    LET full(v) == FullMap(objs[2], v)
    IN {WithVersion(full(v), ver) :
            v \in Values, ver \in {None} \cup Versions}
       \cup Perturbed(full(1))
       \cup {to_dict(objs[1], heap, <<>>, <<>>).out}

\* the JSON texts handed to from_json and found in the file
TextInputs ==
    {<<LBRACE>>, <<LBRACE, Tok("str", 0, N_a), COLON, Tok("num", 1, <<>>)>>}
    \cup {JsonDumps(WithVersion(FullMap(objs[2], 1), ver)) :
              ver \in {None, VersionAttr(objs[2])}}
    \cup {JsonDumps(PutKey(FullMap(objs[2], 1), N_z, Prim(0)))}

\* the only / ignore arguments
FilterInputs ==
    {[only |-> <<>>, ignore |-> <<>>],
     [only |-> <<N_a>>, ignore |-> <<>>],
     [only |-> <<>>, ignore |-> <<N_a>>],
     [only |-> <<>>, ignore |-> <<N_s>>],
     [only |-> <<N_a>>, ignore |-> <<N_b>>]}

\* the keys handed to __setitem__
KeyInputs == LeafPaths(objs[1]) \cup {N_z}

(* ---------------- state ---------------- *)
\* ret describes the last call: its arguments, what it raised or returned,
\* what it did on the way, and the objects, CustomValue instances and file
\* as they were before it.
NoCall ==
    [op |-> "none", inst |-> 1, key |-> <<>>, value |-> Prim(0),
     only |-> <<>>, ignore |-> <<>>, validate |-> TRUE,
     attrs_in |-> Dict(<<>>), text_in |-> <<>>,
     err |-> "none", why |-> "none", returned |-> NoResult,
     mres |-> NoResult, attrs_out |-> Dict(<<>>), applied |-> <<>>, steps |-> 0,
     migrated |-> FALSE, validated |-> FALSE, assigned |-> 0,
     decoded |-> FALSE, opened |-> FALSE,
     out |-> Dict(<<>>), text_out |-> <<>>,
     pre_objs |-> <<>>, pre_heap |-> <<>>, pre_fs |-> File(FALSE, <<>>)]

Call(op, i, f) ==
    [NoCall EXCEPT !.op = op, !.inst = i, !.only = f.only,
                   !.ignore = f.ignore, !.pre_objs = objs,
                   !.pre_heap = heap, !.pre_fs = fs]

\* a call of from_dict, from_json or from_file with outcome o
Loaded(c, o) ==
    [c EXCEPT !.err = o.err, !.why = o.why, !.returned = o.returned,
              !.mres = o.mres, !.attrs_out = o.attrs, !.applied = o.applied,
              !.steps = o.steps,
              !.migrated = o.migrated, !.validated = o.validated,
              !.assigned = o.assigned]

\* the initial_values handed to the constructor of the first instance: a
\* value for every primitive attribute but the version, by true dot name
InitialValueInputs(obj) ==
    LET paths == SelectSeq(LeafSeq(obj, <<>>),
                     LAMBDA f : f.value.k = "prim" /\ f.name # N_version)
    IN {Dict([i \in 1..Len(paths) |-> Item(paths[i].name, Prim(val[i]))]) :
            val \in [1..Len(paths) -> Values]}

\* Instances of the classes with nested objects and CustomValues, with any
\* values, and any file
InitObjects ==
    /\ cls \in {Class(FlatAttrs(3), ChainMigrations(3)),
                Class(UnversionedAttrs, <<>>)}
               \cup {Class(a, ChainMigrations(3)) :
                        a \in {ChainAttrs, SiblingAttrs, CustomAttrs}}
    /\ \E iv \in InitialValueInputs(__init__(cls.attrs, Dict(<<>>)).obj) :
           /\ __init__(cls.attrs, iv).ok
           /\ objs = <<__init__(cls.attrs, iv).obj,
                       __init__(cls.attrs, Dict(<<>>)).obj>>
    /\ fs \in {File(FALSE, <<>>), File(TRUE, <<LBRACE>>),
               File(TRUE, JsonDumps(FullMap(__init__(cls.attrs,
                                                     Dict(<<>>)).obj, 1)))}

\* Instances of a flat class at any version with any list of migrations
InitMigrations ==
    /\ cls \in {Class(FlatAttrs(v), m) :
                   v \in Versions, m \in MigrationLists}
    /\ objs = <<__init__(cls.attrs, Dict(<<>>)).obj,
                __init__(cls.attrs, Dict(<<>>)).obj>>
    /\ fs = File(FALSE, <<>>)

Init ==
    /\ InitObjects \/ InitMigrations
    /\ heap = [r \in {CvRef} |-> 0]
    /\ ret = NoCall

\* No call has been made yet: a run of the model is the construction of two
\* instances and one call.
Idle == ret.op = "none"

\* objs[1][key] = v
SetItem(key, v) ==
    /\ \E r \in {__setitem__(objs[1], key, Prim(v))} :
          /\ objs' = [objs EXCEPT ![1] = r.obj]
          /\ ret' = [Call("setitem", 1, [only |-> <<>>, ignore |-> <<>>])
                        EXCEPT !.key = key, !.value = Prim(v),
                               !.err = IF r.ok THEN "none"
                                       ELSE "AttributeError"]
    /\ UNCHANGED <<cls, heap, fs>>

\* Serializer().to_dict(objs[i], only, ignore)
ToDict(i, f) ==
    /\ \E r \in {to_dict(objs[i], heap, f.only, f.ignore)} :
          ret' = [Call("to_dict", i, f) EXCEPT !.err = r.err, !.out = r.out]
    /\ UNCHANGED <<cls, objs, heap, fs>>

\* Serializer().to_json(objs[i], only=only, ignore=ignore)
ToJson(i, f) ==
    /\ \E r \in {to_json(objs[i], heap, f.only, f.ignore)} :
          ret' = [Call("to_json", i, f) EXCEPT !.err = r.err,
                                               !.text_out = r.text]
    /\ UNCHANGED <<cls, objs, heap, fs>>

\* Serializer().to_file(objs[i], filename, only=only, ignore=ignore)
ToFile(i, f) ==
    /\ \E r \in {to_file(objs[i], heap, fs, f.only, f.ignore)} :
          /\ fs' = r.file
          /\ ret' = [Call("to_file", i, f) EXCEPT !.err = r.err,
                                                  !.opened = r.opened]
    /\ UNCHANGED <<cls, objs, heap>>

\* Serializer().validate_dict(objs[i], attrs, only, ignore)
ValidateDict(i, attrs, f) ==
    /\ \E r \in {validate_dict(objs[i], attrs, f.only, f.ignore)} :
          ret' = [Call("validate_dict", i, f)
                     EXCEPT !.attrs_in = attrs, !.attrs_out = attrs,
                            !.err = r.err, !.why = r.why]
    /\ UNCHANGED <<cls, objs, heap, fs>>

\* Serializer().from_dict(objs[i], attrs, validate, only, ignore)
FromDict(i, attrs, validate, f) ==
    /\ \E o \in {from_dict(cls.migrations, objs[i], heap, attrs, validate,
                          f.only, f.ignore)} :
          /\ objs' = [objs EXCEPT ![i] = o.obj]
          /\ heap' = o.heap
          /\ ret' = Loaded([Call("from_dict", i, f)
                               EXCEPT !.attrs_in = attrs,
                                      !.validate = validate], o)
    /\ UNCHANGED <<cls, fs>>

\* Serializer().from_json(objs[i], text, validate, only, ignore)
FromJson(i, text, validate, f) ==
    /\ \E r \in {from_json(cls.migrations, objs[i], heap, text, validate,
                          f.only, f.ignore)} :
          /\ objs' = [objs EXCEPT ![i] = r.o.obj]
          /\ heap' = r.o.heap
          /\ ret' = [Loaded([Call("from_json", i, f)
                                EXCEPT !.text_in = text,
                                       !.validate = validate], r.o)
                        EXCEPT !.decoded = r.decoded]
    /\ UNCHANGED <<cls, fs>>

\* Serializer().from_file(objs[i], filename, validate, only, ignore)
FromFile(i, validate, f) ==
    /\ \E r \in {from_file(cls.migrations, objs[i], heap, fs, validate,
                          f.only, f.ignore)} :
          /\ objs' = [objs EXCEPT ![i] = r.o.obj]
          /\ heap' = r.o.heap
          /\ ret' = [Loaded([Call("from_file", i, f)
                                EXCEPT !.text_in = fs.text,
                                       !.validate = validate], r.o)
                        EXCEPT !.decoded = r.decoded, !.opened = r.opened]
    /\ UNCHANGED <<cls, fs>>

Next ==
    \/ Idle /\ \E key \in KeyInputs, v \in Values : SetItem(key, v)
    \/ Idle /\ \E i \in 1..2, f \in FilterInputs : ToDict(i, f)
    \/ Idle /\ \E i \in 1..2, f \in FilterInputs : ToJson(i, f)
    \/ Idle /\ \E i \in 1..2, f \in FilterInputs : ToFile(i, f)
    \/ Idle /\ \E i \in 1..2, attrs \in AttrsInputs, f \in FilterInputs :
                  ValidateDict(i, attrs, f)
    \/ Idle /\ \E i \in 1..2, attrs \in AttrsInputs, validate \in BOOLEAN,
                  f \in FilterInputs : FromDict(i, attrs, validate, f)
    \/ Idle /\ \E i \in 1..2, text \in TextInputs, validate \in BOOLEAN,
                  f \in FilterInputs : FromJson(i, text, validate, f)
    \/ Idle /\ \E i \in 1..2, validate \in BOOLEAN, f \in FilterInputs :
                  FromFile(i, validate, f)

Spec == Init /\ [][Next]_vars

(* ---------------- what the claims speak of ---------------- *)
\* from_dict and the wrappers that end in it
Loads == {"from_dict", "from_json", "from_file"}

\* the instance the last call was made on, before and after it, and the
\* other instance
PreObj == ret.pre_objs[ret.inst]
PostObj == objs[ret.inst]
Other == 3 - ret.inst

\* a leaf as a reader sees it: a CustomValue shows its state
Shown(val, h) ==
    IF val.k = "custom" THEN [k |-> "custom", v |-> h[val.v], kids |-> <<>>]
    ELSE val

\* every leaf of an object tree by dot name, read with obj[name]
FieldView(obj, h) ==
    [name \in LeafPaths(obj) |-> Shown(__getitem__(obj, name).val, h)]

\* the last call was from_dict(fresh, to_dict(obj)) with the default
\* arguments, obj the first instance and fresh the second, at one version
RoundTripCall ==
    /\ ret.op = "from_dict" /\ ret.inst = 2
    /\ ret.validate /\ ret.only = <<>> /\ ret.ignore = <<>>
    /\ ret.attrs_in = to_dict(ret.pre_objs[1], ret.pre_heap, <<>>, <<>>).out

\* C1: from_dict(fresh, to_dict(obj)) raises nothing, returns no
\* MigrationResult and leaves fresh field-for-field equal to obj, for every
\* type, sibling nested sub-objects included.
C1_RoundTrip ==
    RoundTripCall =>
        /\ ret.err = "none"
        /\ ~ret.returned.present
        /\ FieldView(objs[2], heap) = FieldView(ret.pre_objs[1], ret.pre_heap)

\* the last call ran the migration engine and the version it reached is not
\* the object's version
FailedMigration ==
    /\ ret.op \in Loads
    /\ ret.migrated
    /\ ret.mres.present
    /\ ret.mres.version_reached # VersionAttr(PreObj)

\* C2: when the migration engine does not reach the object's version,
\* from_dict returns that MigrationResult with success false, validates
\* nothing, assigns nothing, and every field of the object is as before.
C2_FailedMigrationShortCircuits ==
    FailedMigration =>
        /\ ret.err = "none"
        /\ ret.returned = ret.mres
        /\ ~ret.returned.success
        /\ ~ret.validated
        /\ ret.assigned = 0
        /\ objs = ret.pre_objs
        /\ heap = ret.pre_heap

\* a migration chain that stalled after a transform ran, on an input that
\* would otherwise have changed the field a
C2_Witness ==
    /\ FailedMigration
    /\ ret.op = "from_dict"
    /\ Len(ret.applied) >= 1
    /\ HasKey(ret.attrs_in, N_a)
    /\ GetKey(ret.attrs_in, N_a) # GetKey(PreObj, N_a)
    /\ objs = ret.pre_objs

AppliedMigrations ==
    [k \in 1..Len(ret.applied) |-> cls.migrations[ret.applied[k]]]

\* the applied migrations lead from version "from" to version "to", each
\* starting where the one before it ended
LinkedChain(ms, from, to) ==
    IF Len(ms) = 0 THEN from = to
    ELSE /\ ms[1].from = from
         /\ \A k \in 1..(Len(ms) - 1) : ms[k + 1].from = ms[k].to
         /\ ms[Len(ms)].to = to

RECURSIVE ReachableVersions(_, _)
\* the versions a from->to chain of the migrations leads to from those of S
ReachableVersions(migrations, S) ==
    LET T == S \cup {migrations[k].to :
                        k \in {j \in 1..Len(migrations) :
                                  migrations[j].from \in S}}
    IN IF T = S THEN S ELSE ReachableVersions(migrations, T)

\* the last call was a from_dict that ran the engine on versions that differ
MigratingCall == ret.op = "from_dict" /\ ret.migrated /\ ret.mres.present

\* C4: the version marker advances only by applying a migration that starts
\* at the marker, so version_reached is reached from old_version by the
\* migrations applied, and with no chain to the target success is false.
C4_TransitionRule ==
    MigratingCall =>
        /\ LinkedChain(AppliedMigrations, ret.mres.old_version,
                       ret.mres.version_reached)
        /\ (ret.mres.target_version \notin
                ReachableVersions(cls.migrations, {ret.mres.old_version})
              => ~ret.mres.success)

RECURSIVE ApplyChain(_, _, _, _)
\* attrs after the transforms of migrations[from], ..., migrations[to]
ApplyChain(migrations, from, to, attrs) ==
    IF from > to THEN attrs
    ELSE ApplyChain(migrations, from + 1, to,
                    ApplyTransform(migrations[from], attrs))

\* the last call loaded, into an object at the last version of a chain
\* registered in order, a map at the version where migration number First
\* of the chain starts
ChainCall(n, first) ==
    /\ ret.op = "from_dict" /\ ret.migrated
    /\ cls.migrations = ChainMigrations(n)
    /\ VersionAttr(PreObj) = n
    /\ VersionOf(ret.attrs_in) = ChainMigrations(n)[first].from

\* C5: loading a map whose version is on the registered chain succeeds with
\* version_reached the target, and applies exactly the transforms from the
\* map's version on, in order.
C5_ChainConvergence ==
    \A n \in 1..Len(cls.migrations), first \in 1..Len(cls.migrations) :
        (first <= n /\ ChainCall(n, first)) =>
            /\ ret.mres = MigrationResult(VersionOf(ret.attrs_in), n, n, TRUE)
            /\ ret.applied = [k \in 1..(n - first + 1) |-> first + k - 1]
            /\ DelKey(ret.attrs_out, N_version) =
                   DelKey(ApplyChain(cls.migrations, first, n, ret.attrs_in),
                          N_version)

(* ---------------- validation and filters ---------------- *)
RECURSIVE MapPaths(_, _, _)
\* the dot names of the keys of a map that is read against an object: a
\* dict under a nested object is descended into, anything else is a leaf
MapPaths(attrs, obj, prefix) ==
    UNION {LET n == attrs.kids[i].n
               val == attrs.kids[i].val
               o == GetAttr(obj, n)
           IN IF o.ok /\ o.val.k = "vobj" /\ val.k = "dict"
              THEN MapPaths(val, o.val, Append(prefix, n))
              ELSE {JoinDot(Append(prefix, n))}
           : i \in 1..Len(attrs.kids)}

Kept(names) ==
    {n \in names : ~_field_should_be_skipped(n, ret.only, ret.ignore)}

\* the non-filtered leaves of the object the map of the last call omits,
\* the version excepted, and the non-filtered keys of the map that the
\* object does not declare
Omitted == Kept(LeafPaths(PreObj) \ {N_version})
               \ MapPaths(ret.attrs_in, PreObj, <<>>)
Undeclared == Kept(MapPaths(ret.attrs_in, PreObj, <<>>)) \ LeafPaths(PreObj)

FilterConflict == Len(ret.only) > 0 /\ Len(ret.ignore) > 0

\* C6: validate_dict raises the missing-attributes error only when the map
\* omits a non-filtered leaf, the unrecognized-attribute error only when the
\* map has a non-filtered key the object does not declare, and raises
\* nothing exactly when neither is the case, for every object tree.
C6_ValidationSymmetry ==
    (ret.op = "validate_dict" /\ ~FilterConflict) =>
        /\ ret.why = "missing" => Omitted # {}
        /\ ret.why \in {"unrecognized", "attribute"} => Undeclared # {}
        /\ ret.err = "none" <=> (Omitted = {} /\ Undeclared = {})

\* C7: every Serializer entry point called with both only and ignore
\* non-empty raises InvalidFilterError before anything else: no JSON text is
\* decoded, no file opened, no transform run, nothing changed.
C7_FilterExclusivity ==
    (ret.op \notin {"none", "setitem"} /\ FilterConflict) =>
        /\ ret.err = "InvalidFilterError"
        /\ ~ret.decoded
        /\ ~ret.opened
        /\ ret.applied = <<>>
        /\ objs = ret.pre_objs
        /\ heap = ret.pre_heap
        /\ fs = ret.pre_fs
        /\ ret.op \in {"validate_dict", "from_dict"} =>
               ret.attrs_out = ret.attrs_in

\* the map the engine of the last load was given
InputMap ==
    IF ret.op = "from_dict" THEN ret.attrs_in ELSE JsonLoads(ret.text_in).node

\* C9: a load produces a MigrationResult exactly when the input's version
\* differs from the object's; its old_version is the input's version, its
\* target_version the object's, and success says version_reached is the
\* target. With equal versions there is no result and no transform, and the
\* load goes on to validation and assignment.
C9_ResultConsistency ==
    (ret.op \in Loads /\ ret.migrated) =>
        /\ ret.mres.present <=> VersionOf(InputMap) # VersionAttr(PreObj)
        /\ ret.mres.present =>
              /\ ret.mres.old_version = VersionOf(InputMap)
              /\ ret.mres.target_version = VersionAttr(PreObj)
              /\ ret.mres.success <=>
                     ret.mres.version_reached = ret.mres.target_version
        /\ ~ret.mres.present =>
              /\ ret.applied = <<>>
              /\ ret.validated = ret.validate
              /\ ret.err = "none" =>
                     ret.assigned = Cardinality(Kept(MapPaths(
                         DelKey(InputMap, N_version), PreObj, <<>>)))
        /\ ret.err = "none" => ret.returned = ret.mres

\* a load whose migration stalled after a transform, and so has a result
\* with success false and version_reached short of the target
C9_Witness ==
    /\ ret.op = "from_dict" /\ ret.migrated
    /\ ret.mres.present
    /\ ~ret.mres.success
    /\ Len(ret.applied) >= 2
    /\ ret.mres.version_reached # ret.mres.target_version

(* ---------------- addressing and aliasing ---------------- *)
RECURSIVE MapAt(_, _)
\* the value of a nested map at the position the names lead to
MapAt(attrs, names) ==
    IF attrs.k # "dict" \/ ~HasKey(attrs, Head(names))
    THEN [ok |-> FALSE, val |-> Prim(0)]
    ELSE IF Len(names) = 1
    THEN [ok |-> TRUE, val |-> GetKey(attrs, Head(names))]
    ELSE MapAt(GetKey(attrs, Head(names)), Tail(names))

\* C8: after root[p] = v on a leaf p, root[p] is v, every other leaf is as
\* before, and to_dict(root) holds v at the nested position p names, for
\* every object tree.
C8_DotPathAddressing ==
    (ret.op = "setitem" /\ ret.err = "none") =>
        /\ __getitem__(PostObj, ret.key) = [ok |-> TRUE, val |-> ret.value]
        /\ \A q \in LeafPaths(PreObj) \ {ret.key} :
               __getitem__(PostObj, q) = __getitem__(PreObj, q)
        /\ MapAt(to_dict(PostObj, heap, <<>>, <<>>).out,
                 SplitDot(ret.key, <<>>, <<>>))
               = [ok |-> TRUE, val |-> ret.value]

\* C10: whatever is done through one instance (a subscript assignment, a
\* from_dict with its CustomValue hook), every field read through the other
\* instance has the value it had before.
C10_NoAliasing ==
    ret.op \in {"setitem", "from_dict"} =>
        FieldView(objs[Other], heap)
            = FieldView(ret.pre_objs[Other], ret.pre_heap)

(* ---------------- termination of the migration engine ---------------- *)
\* a load that got as far as calling _vobj__migrate
EngineCall == ret.op \in Loads /\ ret.migrated

RECURSIVE ApplyInOrder(_, _, _)
\* the transforms of ms from index k on, called one after the other
ApplyInOrder(ms, k, attrs) ==
    IF k > Len(ms) THEN attrs
    ELSE ApplyInOrder(ms, k + 1, ApplyTransform(ms[k], attrs))

\* C11: the migration engine terminates: for every registered list (with a
\* cycle, a gap or a duplicate from-version too) and every input version, one
\* load makes at most as many loop steps as there are registered migrations,
\* calls each registered transform at most once and only in registration
\* order (the indexes of the transforms called increase strictly), and the
\* map it hands on is the input with exactly those transforms applied.
C11_EngineTerminates ==
    EngineCall =>
        /\ ret.steps \in 0..Len(cls.migrations)
        /\ Len(ret.applied) <= ret.steps
        /\ \A k \in 1..Len(ret.applied) : ret.applied[k] \in 1..ret.steps
        /\ \A j, k \in 1..Len(ret.applied) :
               j < k => ret.applied[j] < ret.applied[k]
        /\ Len(ret.applied) >= 1 =>
               /\ HasKey(ret.attrs_out, N_a)
               /\ GetKey(ret.attrs_out, N_a)
                      = GetKey(ApplyInOrder(AppliedMigrations, 1, InputMap), N_a)

\* a load on the cycle 1->2, 2->1 towards a version the cycle never reaches:
\* both transforms are called, once each, and the loop ends after two steps
C11_Witness ==
    /\ EngineCall
    /\ cls.migrations = <<Migration(1, 2), Migration(2, 1)>>
    /\ ret.applied = <<1, 2>>
    /\ ret.steps = 2
    /\ ret.mres.present /\ ~ret.mres.success

====
